---- MODULE Spec2Model ----
(***************************************************************************)
(* Launch Risk Radar: the scan loop (radar/main.py run_loop), the          *)
(* checkpoint store (radar/store.py), the escalation pipeline              *)
(* (radar/main.py enrich_and_triage, radar/analyzer.py) and the alert      *)
(* dispatcher (radar/main.py _publish, radar/publishers.py).               *)
(***************************************************************************)
EXTENDS Integers, Sequences, FiniteSets, TLC

(***************************************************************************)
(* Bounds of the model.                                                    *)
(***************************************************************************)
\* Highest chain height the RPC ever reports.
MaxTip == 12

(***************************************************************************)
(* Program constants.                                                      *)
(***************************************************************************)
\* main.py:99  end = min(latest, last + 10)
BATCH_CAP == 10
\* store.py:43  get_last_block returns None when no row exists
NoBlock == -1
\* config.py:34, config.py:35  the default thresholds
ALERT_MIN_SCORE == 3
DEEP_ANALYSIS_THRESHOLD == 6
\* analyzer.py:149, 190, 201  the score of every fallback assessment
FALLBACK_SCORE == 5
\* publishers.py:38  details = risk.details[:2000]
DETAILS_CUT == 2000
\* publishers.py:53  if len(text) > 4000
TELEGRAM_CUT == 4000
\* publishers.py:54  len("\n...(truncated)") with the one-character ellipsis
MARKER_LEN == 13
\* publishers.py:29-34  the characters of the deep header that are not a field
HEADER_FIXED == 98
\* publishers.py:39  len("\n--- Report ---\n") plus the closing newline
REPORT_FRAME == 17
\* base_rpc.py:40-41  a checksum address: "0x" and 40 hex digits
ADDRESS_LEN == 42

(***************************************************************************)
(* The chain: contract-creation transactions per block, in block order     *)
(* (base_rpc.py iter_deployments_in_block).  Heights not listed hold no    *)
(* contract creation.                                                      *)
(***************************************************************************)
Chain(h) ==
    CASE h = 1 -> <<"tx1">>
      [] h = 2 -> <<"tx2", "tx3">>
      [] h = 11 -> <<"tx4">>
      [] OTHER -> <<>>

Txs == {"tx1", "tx2", "tx3", "tx4"}
NoDep == "none"

Min(a, b) == IF a < b THEN a ELSE b

VARIABLES
    cfg,                \* Config, loaded once per process start (config.py)
    tip,                \* the chain's tip as last reported by the RPC
    pc,                 \* position of run_loop
    last,               \* run_loop: in-memory cursor
    latest,             \* run_loop: tip read by the current cycle
    end,                \* run_loop: last height of the current batch
    bn,                 \* run_loop: height being processed
    idx,                \* run_loop: position of the generator in block bn
    dep,                \* run_loop: the deployment at hand
    store_last_block,   \* Store: meta['last_block'] (NoBlock when absent)
    store_deployments,  \* Store: tx_hash keys of table deployments
    invoked,            \* history: enrich_and_triage calls per tx_hash
    origin,             \* history: cursor the scan started from without a checkpoint
    cycleHigh,          \* history: highest height checkpointed by the current cycle
    failedAt,           \* history: height at which the current cycle failed
    ppc,                \* position of enrich_and_triage
    source,             \* enrich_and_triage: source
    bytecode,           \* enrich_and_triage: bytecode
    risk,               \* enrich_and_triage: risk
    deep_risk,          \* enrich_and_triage: deep_risk
    msg,                \* the alert handed to _publish
    pending,            \* _publish: channel sends started and not finished
    results,            \* _publish: outcome of each finished send
    responses,          \* which answers BaseScan and the evaluator may give
    trace,              \* history of the current pipeline run
    tpc,                \* position of the alert text on its way to the sinks
    report,             \* the deep assessment whose alert is formatted (lengths)
    text,               \* the text format_deep_alert returned
    wire                \* the text each sink handed to its transport

loopVars == <<tip, pc, last, latest, end, bn, idx, dep, store_last_block,
              store_deployments, invoked, origin, cycleHigh, failedAt>>
pipeVars == <<ppc, source, bytecode, risk, deep_risk, msg, pending, results, trace>>
textVars == <<tpc, report, text, wire>>
vars == <<cfg, responses, loopVars, pipeVars, textVars>>

(***************************************************************************)
(* Values exchanged with the evaluator (analyzer.py).                      *)
(***************************************************************************)
\* A JSON "tags" value: a list of strings, or a shape str.join rejects.
TagList(items) == [kind |-> "list", items |-> items]
TagsNull == [kind |-> "null", items |-> <<>>]
TagsInts == [kind |-> "ints", items |-> <<>>]
TagsMissing == [kind |-> "missing", items |-> <<>>]

\* A JSON "score" value: an integer, a float (in tenths), a non-numeric
\* string, or no such key.
ScoreInt(n) == [kind |-> "int", v |-> n]
ScoreFloat(tenths) == [kind |-> "float", v |-> tenths]
ScoreText == [kind |-> "text", v |-> 0]
ScoreAbsent == [kind |-> "absent", v |-> 0]

\* The outcome of one _call_claude: a transport error (raise_for_status,
\* timeout), a body json.loads rejects, or a JSON object with these fields.
Response(transport, body, score, headline, tags, findings) ==
    [transport |-> transport, body |-> body, score |-> score,
     headline |-> headline, tags |-> tags, findings |-> findings]

Answer(score, tags) == Response("ok", "object", score, TRUE, tags, "ok")
TransportError == Response("error", "invalid", ScoreAbsent, FALSE, TagsMissing, "ok")
InvalidBody == Response("ok", "invalid", ScoreAbsent, FALSE, TagsMissing, "ok")
NoHeadline == Response("ok", "object", ScoreInt(7), FALSE, TagList(<<"honeypot">>), "ok")
BadFindings == Response("ok", "object", ScoreInt(7), TRUE, TagList(<<"honeypot">>), "malformed")

\* int(x) of Python: raises on a non-numeric string and on a missing key
\* (the subscript raises first); truncates a float toward zero.
IntRaises(s) == s.kind \in {"text", "absent"}
IntOf(s) ==
    IF s.kind = "int" THEN s.v
    ELSE IF s.v >= 0 THEN s.v \div 10 ELSE -((-s.v) \div 10)

\* result.get("tags", [])
GetTags(r) == IF r.tags.kind = "missing" THEN TagList(<<>>) ELSE r.tags

\* ', '.join(risk.tags) raises TypeError unless tags is a list of strings.
Joinable(tags) == tags.kind = "list"

RiskAssessment(score, tags, tier) == [score |-> score, tags |-> tags, tier |-> tier]
NoRisk == RiskAssessment(0, TagList(<<>>), "none")

\* _call_claude raises (transport or json.loads)
CallRaises(r) == r.transport = "error" \/ r.body # "object"

\* analyzer.py fast_triage
fast_triage(r) ==
    IF CallRaises(r) \/ IntRaises(r.score) \/ ~r.headline
    THEN RiskAssessment(FALLBACK_SCORE, TagList(<<"triage-error">>), "fast")
    ELSE RiskAssessment(IntOf(r.score), GetTags(r), "fast")

\* analyzer.py deep_analysis
deep_analysis(r) ==
    IF CallRaises(r) \/ r.findings # "ok" \/ IntRaises(r.score) \/ ~r.headline
    THEN RiskAssessment(FALLBACK_SCORE, TagList(<<"analysis-error">>), "deep")
    ELSE RiskAssessment(IntOf(r.score), GetTags(r), "deep")

\* analyzer.py quick_heuristic_assess
quick_heuristic_assess == RiskAssessment(FALLBACK_SCORE, TagList(<<"unverified">>), "placeholder")

\* _build_context as it would be if it tested only that a source record
\* exists, not that it is verified.
build_context_any_source(src, code) ==
    IF src # "None" THEN "Verified"
    ELSE IF code = "code" THEN "UnverifiedWithBytecode"
    ELSE "Unavailable"

\* analyzer.py _build_context: which enrichment payload the prompt carries
build_context(src, code) ==
    IF src = "verified" THEN "Verified"
    ELSE IF code = "code" THEN "UnverifiedWithBytecode"
    ELSE "Unavailable"

\* main.py _publish: the channels a task is created for
Channels(c) ==
    (IF c.telegram_bot_token /\ c.telegram_chat_id THEN {"telegram"} ELSE {})
    \cup (IF c.whatsapp_target THEN {"whatsapp"} ELSE {})

(***************************************************************************)
(* Alert text (publishers.py), by its length: a text is its number of      *)
(* characters and whether it ends with the truncation marker.              *)
(***************************************************************************)
Text(n, marked) == [len |-> n, marker |-> marked]
NoText == Text(0, FALSE)
NoReport == [score |-> 0, headline_len |-> 0, tags_len |-> 0, details_len |-> 0]

\* len(str(n)) of the score in "Risk {risk.score}/10"
Digits(n) ==
    IF n < 0 THEN (IF n > -10 THEN 2 ELSE 3)
    ELSE IF n < 10 THEN 1 ELSE IF n < 100 THEN 2 ELSE 3

\* publishers.py:25-40  format_deep_alert: the header, and the report cut to
\* its first 2000 characters when there is one
format_deep_alert(r) ==
    Text(HEADER_FIXED + Digits(r.score) + r.headline_len + r.tags_len + 3 * ADDRESS_LEN
            + (IF r.details_len > 0
               THEN REPORT_FRAME + Min(r.details_len, DETAILS_CUT)
               ELSE 0),
         FALSE)

\* The characters of the report body that format_deep_alert keeps.
ReportKept(r) == IF r.details_len > 0 THEN Min(r.details_len, DETAILS_CUT) ELSE 0

\* send_telegram as it would be without its length check.
telegram_text_uncut(t) == t

\* publishers.py:52-54  send_telegram: text[:4000] + marker past 4000
telegram_text(t) ==
    IF t.len > TELEGRAM_CUT THEN Text(TELEGRAM_CUT + MARKER_LEN, TRUE) ELSE t

\* publishers.py:60-74  send_whatsapp passes the message as it is
whatsapp_text(t) == t

TextRest ==
    /\ tpc = "idle"
    /\ report = NoReport
    /\ text = NoText
    /\ wire = [telegram |-> NoText, whatsapp |-> NoText]

\* main.py:59  deep_msg = format_deep_alert(dep, deep_risk)
format_deep_alert_call ==
    /\ tpc = "assessed"
    /\ text' = format_deep_alert(report)
    /\ tpc' = "formatted"
    /\ wire' = [telegram |-> NoText, whatsapp |-> NoText]
    /\ UNCHANGED <<cfg, responses, loopVars, pipeVars, report>>

\* main.py:67  send_telegram(..., msg) hands its text to the HTTP client
send_telegram_text ==
    /\ tpc \in {"formatted", "whatsapp"}
    /\ wire' = [wire EXCEPT !.telegram = telegram_text(text)]
    /\ tpc' = IF tpc = "formatted" THEN "telegram" ELSE "sent"
    /\ UNCHANGED <<cfg, responses, loopVars, pipeVars, report, text>>

\* main.py:69  send_whatsapp(..., msg) hands its text to the subprocess
send_whatsapp_text ==
    /\ tpc \in {"formatted", "telegram"}
    /\ wire' = [wire EXCEPT !.whatsapp = whatsapp_text(text)]
    /\ tpc' = IF tpc = "formatted" THEN "whatsapp" ELSE "sent"
    /\ UNCHANGED <<cfg, responses, loopVars, pipeVars, report, text>>

(***************************************************************************)
(* The answers of the collaborators.                                       *)
(***************************************************************************)
\* The answers BaseScan (fetch_contract_source: it raises, or reports a
\* verified or an unverified contract; fetch_contract_bytecode: it raises,
\* or returns None or the code) and the evaluator give the scan loop.
LoopResponses ==
    [source |-> {"raise", "unverified"},
     bytecode |-> {"code"},
     fast |-> {TransportError, Answer(ScoreInt(2), TagList(<<"safe">>)),
               Answer(ScoreInt(7), TagList(<<"honeypot">>)),
               Answer(ScoreInt(7), TagsNull)},
     deep |-> {TransportError, Answer(ScoreInt(8), TagList(<<"honeypot">>)),
               Answer(ScoreInt(8), TagsInts)}]

ScoreValues ==
    {ScoreInt(n) : n \in {-1, 0, 2, 3, 4, 5, 6, 7, 10, 12}}
    \cup {ScoreFloat(59), ScoreFloat(-5), ScoreText, ScoreAbsent}

PipeResponses ==
    [source |-> {"raise", "verified", "unverified"},
     bytecode |-> {"raise", "None", "code"},
     fast |-> {Answer(sc, tg) : sc \in ScoreValues,
                                tg \in {TagList(<<"honeypot">>), TagsMissing, TagsNull}}
              \cup {TransportError, InvalidBody, NoHeadline},
     deep |-> {TransportError, BadFindings,
               Answer(ScoreInt(8), TagList(<<"honeypot">>)),
               Answer(ScoreInt(2), TagList(<<"safe">>)),
               Answer(ScoreInt(8), TagsInts)}]

\* The answers of the environment named by variable responses: "narrow" and
\* "wide" answer every call; "mute" answers like "wide" except that the
\* WhatsApp gateway subprocess never exits.
Answers(kind) == IF kind = "narrow" THEN LoopResponses ELSE PipeResponses

(***************************************************************************)
(* The escalation pipeline: main.py enrich_and_triage, one step per        *)
(* external call.                                                          *)
(***************************************************************************)
\* What the prompts ask of the evaluator: an integer score 0..10, a
\* headline, a list of string tags, well-formed findings.
WellFormed(r) ==
    /\ ~CallRaises(r)
    /\ r.score.kind = "int" /\ r.score.v \in 0..10
    /\ r.headline
    /\ r.tags.kind = "list"
    /\ r.findings = "ok"

NewTrace ==
    [fast_calls |-> 0, fast_ctx |-> "none", fast_malformed |-> FALSE,
     fast_publish |-> 0, deep_calls |-> 0, deep_malformed |-> FALSE,
     deep_publish |-> 0, started |-> {}, sends |-> {}, order |-> <<>>]

NoMsg == [tier |-> "none", score |-> 0, tags |-> TagList(<<>>)]

\* main.py:46  if risk.score >= cfg.alert_min_score
ShouldAlert(c, r) == r.score >= c.alert_min_score

\* The test of main.py:51 as it would be without its second operand.
ShouldDeepWithoutKey(c, r) == r.score >= c.deep_analysis_threshold

\* main.py:51  if risk.score >= cfg.deep_analysis_threshold and cfg.anthropic_api_key
ShouldDeep(c, r) == r.score >= c.deep_analysis_threshold /\ c.anthropic_api_key

\* publishers.py format_fast_alert / format_deep_alert: the alert built from
\* an assessment (its text is modelled by format_deep_alert_len below).
format_alert(r, tier) == [tier |-> tier, score |-> r.score, tags |-> r.tags]

\* The gather as it would be without return_exceptions=True: the first
\* failed send raises out of _publish.
GatherRaisesOnFailure(res) == \E r \in res : ~r.ok

\* main.py:71  asyncio.gather(*tasks, return_exceptions=True) hands every
\* exception back as a result: it never raises for a failed send.
GatherRaises(res) == FALSE

\* main.py:25-28  source = await fetch_contract_source(...)
fetch_contract_source ==
    /\ pc = "pipeline" /\ ppc = "source"
    /\ \E out \in Answers(responses).source :
        /\ source' = IF out = "raise" THEN "None" ELSE out
        /\ ppc' = IF out = "unverified" THEN "bytecode" ELSE "fast"
    /\ trace' = [trace EXCEPT !.order = Append(@, "Enriching")]
    /\ UNCHANGED <<cfg, responses, textVars, loopVars, bytecode, risk, deep_risk, msg, pending, results>>

\* main.py:28  bytecode = await fetch_contract_bytecode(...)
fetch_contract_bytecode ==
    /\ pc = "pipeline" /\ ppc = "bytecode"
    /\ \E out \in Answers(responses).bytecode :
        bytecode' = IF out = "code" THEN "code" ELSE "None"
    /\ ppc' = "fast"
    /\ UNCHANGED <<cfg, responses, textVars, loopVars, source, risk, deep_risk, msg, pending, results, trace>>

\* main.py:33-38  fast triage, or the placeholder without an API key
triage ==
    /\ pc = "pipeline" /\ ppc = "fast"
    /\ IF cfg.anthropic_api_key
       THEN \E r \in Answers(responses).fast :
              /\ risk' = fast_triage(r)
              /\ trace' = [trace EXCEPT !.fast_calls = @ + 1,
                                        !.fast_ctx = build_context(source, bytecode),
                                        !.fast_malformed = ~WellFormed(r),
                                        !.order = Append(@, "FastEvaluated")]
       ELSE /\ risk' = quick_heuristic_assess
            /\ trace' = [trace EXCEPT !.order = Append(@, "FastEvaluated")]
    /\ ppc' = "fast_alert"
    /\ UNCHANGED <<cfg, responses, textVars, loopVars, source, bytecode, deep_risk, msg, pending, results>>

\* main.py:63-71  _publish up to the gather: one task per configured channel
publish_start(m, field, after) ==
    /\ msg' = m
    /\ trace' = [trace EXCEPT ![field] = @ + 1,
                              !.started = @ \cup {<<m.tier, ch>> : ch \in Channels(cfg)}]
    /\ results' = {}
    /\ IF Channels(cfg) = {}
       THEN /\ ppc' = after
            /\ pending' = {}
       ELSE /\ ppc' = "publish"
            /\ pending' = Channels(cfg)

\* main.py:46-48  the fast alert
fast_alert ==
    /\ pc = "pipeline" /\ ppc = "fast_alert"
    /\ IF ShouldAlert(cfg, risk)
       THEN IF Joinable(risk.tags)
            THEN publish_start(format_alert(risk, "fast"), "fast_publish", "deep")
            ELSE /\ ppc' = "raised"
                 /\ UNCHANGED <<msg, trace, results, pending>>
       ELSE /\ ppc' = "deep"
            /\ UNCHANGED <<msg, trace, results, pending>>
    /\ UNCHANGED <<cfg, responses, textVars, loopVars, source, bytecode, risk, deep_risk>>

\* Whether a send to channel ch ever comes back.  send_telegram posts through
\* httpx.AsyncClient(timeout=20) (publishers.py:55): a silent peer becomes a
\* timeout exception.  send_whatsapp awaits proc.communicate()
\* (publishers.py:75) with no timeout: it comes back only if the subprocess
\* exits, which it never does in the environment "mute".
SendReturns(ch, kind) == ch = "telegram" \/ kind # "mute"

\* send as it would be with a retry: a failed send leaves its channel
\* pending, to be sent again.
send_retrying(ch) ==
    /\ pc = "pipeline" /\ ppc = "publish"
    /\ ch \in pending
    /\ SendReturns(ch, responses)
    /\ \E ok \in BOOLEAN :
        /\ results' = results \cup {[ch |-> ch, ok |-> ok]}
        /\ trace' = [trace EXCEPT !.sends = @ \cup {<<msg.tier, ch>>}]
        /\ pending' = IF ok THEN pending \ {ch} ELSE pending
    /\ UNCHANGED <<cfg, responses, textVars, loopVars, ppc, source, bytecode, risk, deep_risk, msg>>

\* One channel send finishes, with success or with an exception.
send(ch) ==
    /\ pc = "pipeline" /\ ppc = "publish"
    /\ ch \in pending
    /\ SendReturns(ch, responses)
    /\ \E ok \in BOOLEAN :
        /\ results' = results \cup {[ch |-> ch, ok |-> ok]}
        /\ trace' = [trace EXCEPT !.sends = @ \cup {<<msg.tier, ch>>}]
    /\ pending' = pending \ {ch}
    /\ UNCHANGED <<cfg, responses, textVars, loopVars, ppc, source, bytecode, risk, deep_risk, msg>>

\* publishers.py send_telegram
send_telegram == send("telegram")

\* publishers.py send_whatsapp
send_whatsapp == send("whatsapp")

\* publish_gather as it would be if _publish went on without awaiting the
\* sends it started.
publish_gather_early ==
    /\ pc = "pipeline" /\ ppc = "publish"
    /\ ppc' = IF msg.tier = "fast" THEN "deep" ELSE "done"
    /\ trace' = [trace EXCEPT !.order =
                    Append(@, IF msg.tier = "fast" THEN "AlertedFast" ELSE "AlertedDeep")]
    /\ results' = {}
    /\ UNCHANGED <<cfg, responses, textVars, loopVars, source, bytecode, risk, deep_risk, msg, pending>>

\* main.py:71-74  the gather returns once every send has finished
publish_gather ==
    /\ pc = "pipeline" /\ ppc = "publish"
    /\ pending = {}
    /\ ppc' = IF GatherRaises(results) THEN "raised"
              ELSE IF msg.tier = "fast" THEN "deep" ELSE "done"
    /\ trace' = [trace EXCEPT !.order =
                    Append(@, IF msg.tier = "fast" THEN "AlertedFast" ELSE "AlertedDeep")]
    /\ results' = {}
    /\ UNCHANGED <<cfg, responses, textVars, loopVars, source, bytecode, risk, deep_risk, msg, pending>>

\* main.py:51-55  deep analysis past its threshold
deep ==
    /\ pc = "pipeline" /\ ppc = "deep"
    /\ IF ShouldDeep(cfg, risk)
       THEN \E r \in Answers(responses).deep :
              /\ deep_risk' = deep_analysis(r)
              /\ trace' = [trace EXCEPT !.deep_calls = @ + 1,
                                        !.deep_malformed = ~WellFormed(r),
                                        !.order = Append(@, "DeepEvaluated")]
              /\ ppc' = "deep_alert"
       ELSE /\ ppc' = "done"
            /\ UNCHANGED <<deep_risk, trace>>
    /\ UNCHANGED <<cfg, responses, textVars, loopVars, source, bytecode, risk, msg, pending, results>>

\* main.py:59-60  the deep alert, whatever the deep score
deep_alert ==
    /\ pc = "pipeline" /\ ppc = "deep_alert"
    /\ IF Joinable(deep_risk.tags)
       THEN publish_start(format_alert(deep_risk, "deep"), "deep_publish", "done")
       ELSE /\ ppc' = "raised"
            /\ UNCHANGED <<msg, trace, results, pending>>
    /\ UNCHANGED <<cfg, responses, textVars, loopVars, source, bytecode, risk, deep_risk>>

PipelineNext ==
    \/ fetch_contract_source
    \/ fetch_contract_bytecode
    \/ triage
    \/ fast_alert
    \/ send_telegram
    \/ send_whatsapp
    \/ publish_gather
    \/ deep
    \/ deep_alert

(***************************************************************************)
(* The checkpoint store (store.py).                                        *)
(***************************************************************************)
\* store.py:40-43  get_last_block
get_last_block == store_last_block

\* has_tx as it would be with the lookup never matching (a wrong key column).
has_tx_never(tx) == FALSE

\* store.py:69-75  has_tx
has_tx(tx) == tx \in store_deployments

\* main.py:83  store.get_last_block() or rpc.latest_block_number(): Python's
\* "or" takes the right operand when the left one is None or 0.
Falsy(b) == b = NoBlock \/ b = 0

\* main.py:85  int(cfg.start_block)
ParseInt(s) == CASE s = "0" -> 0 [] s = "1" -> 1 [] s = "2" -> 2 [] OTHER -> 0

(***************************************************************************)
(* The scan loop: main.py run_loop, one step per external call.            *)
(***************************************************************************)
PipeIdle ==
    /\ ppc' = "idle"
    /\ source' = "None"
    /\ bytecode' = "None"
    /\ risk' = NoRisk
    /\ deep_risk' = NoRisk
    /\ msg' = NoMsg
    /\ pending' = {}
    /\ results' = {}
    /\ trace' = NewTrace

\* The locals of a cycle are dead once it has ended: the next cycle assigns
\* each before reading it.
EndCycle == latest' = 0 /\ end' = 0 /\ bn' = 0 /\ idx' = 0

\* The height a failure left behind is cleared when its scan starts again.
Rescan(h) == failedAt' = IF h = failedAt THEN NoBlock ELSE failedAt

\* main.py:78-85  startup: the cursor
run_loop_start ==
    /\ pc = "start"
    /\ IF cfg.start_block = "latest"
       THEN IF ~Falsy(get_last_block)
            THEN /\ last' = get_last_block
                 /\ UNCHANGED <<tip, origin>>
            ELSE \E t \in tip..MaxTip :
                    /\ tip' = t
                    /\ last' = t
                    /\ origin' = t
       ELSE /\ last' = ParseInt(cfg.start_block)
            /\ origin' = ParseInt(cfg.start_block)
            /\ UNCHANGED tip
    /\ pc' = "cycle"
    /\ UNCHANGED <<cfg, responses, textVars, latest, end, bn, idx, dep, store_last_block,
                   store_deployments, invoked, cycleHigh, failedAt, pipeVars>>

\* main.py:83  rpc.latest_block_number() raises outside the loop's try
run_loop_start_raises ==
    /\ pc = "start"
    /\ cfg.start_block = "latest" /\ Falsy(get_last_block)
    /\ pc' = "dead"
    /\ UNCHANGED <<cfg, responses, textVars, tip, last, latest, end, bn, idx, dep, store_last_block,
                   store_deployments, invoked, origin, cycleHigh, failedAt, pipeVars>>

\* The batch as it would be without the cap: every height up to the tip.
BatchEndUncapped(cursor, t) == t

\* main.py:99  end = min(latest, last + 10)
BatchEnd(cursor, t) == Min(t, cursor + BATCH_CAP)

\* main.py:96-100  the cycle reads the tip and opens the batch
latest_block_number ==
    /\ pc = "cycle"
    /\ \E t \in tip..MaxTip :
        /\ tip' = t
        /\ latest' = IF last < t THEN t ELSE 0
        /\ IF last < t
           THEN /\ end' = BatchEnd(last, t)
                /\ bn' = last + 1
                /\ idx' = 1
                /\ pc' = "block"
                /\ Rescan(last + 1)
           ELSE /\ pc' = "sleep"
                /\ UNCHANGED <<end, bn, idx, failedAt>>
    /\ UNCHANGED <<cfg, responses, textVars, last, dep, store_last_block, store_deployments,
                   invoked, origin, cycleHigh, pipeVars>>

\* main.py:101  the generator of base_rpc.py iter_deployments_in_block
iter_deployments_in_block ==
    /\ pc = "block"
    /\ IF idx <= Len(Chain(bn))
       THEN /\ dep' = Chain(bn)[idx]
            /\ pc' = "has_tx"
       ELSE /\ dep' = NoDep
            /\ pc' = "checkpoint"
    /\ UNCHANGED <<cfg, responses, textVars, tip, last, latest, end, bn, idx, store_last_block,
                   store_deployments, invoked, origin, cycleHigh, failedAt, pipeVars>>

\* main.py:102-103  the idempotence guard
has_tx_check ==
    /\ pc = "has_tx"
    /\ IF has_tx(dep)
       THEN /\ idx' = idx + 1
            /\ dep' = NoDep
            /\ pc' = "block"
       ELSE /\ pc' = "add"
            /\ UNCHANGED <<idx, dep>>
    /\ UNCHANGED <<cfg, responses, textVars, tip, last, latest, end, bn, store_last_block,
                   store_deployments, invoked, origin, cycleHigh, failedAt, pipeVars>>

\* add_deployment as it would be if the row were written only after the
\* pipeline (the mark-after-invoke variant): nothing is persisted here.
add_deployment_deferred ==
    /\ pc = "add"
    /\ pc' = "triage"
    /\ UNCHANGED <<cfg, responses, textVars, tip, last, latest, end, bn, idx, dep, store_last_block,
                   store_deployments, invoked, origin, cycleHigh, failedAt, pipeVars>>

\* main.py:106-112, store.py:52-67  add_deployment(INSERT OR IGNORE)
add_deployment ==
    /\ pc = "add"
    /\ store_deployments' = store_deployments \cup {dep}
    /\ pc' = "triage"
    /\ UNCHANGED <<cfg, responses, textVars, tip, last, latest, end, bn, idx, dep, store_last_block,
                   invoked, origin, cycleHigh, failedAt, pipeVars>>

\* main.py:115  await enrich_and_triage(dep, cfg)
enrich_and_triage ==
    /\ pc = "triage"
    /\ invoked' = [invoked EXCEPT ![dep] = @ + 1]
    /\ pc' = "pipeline"
    /\ ppc' = "source"
    /\ trace' = NewTrace
    /\ UNCHANGED <<cfg, responses, textVars, tip, last, latest, end, bn, idx, dep, store_last_block,
                   store_deployments, origin, cycleHigh, failedAt,
                   source, bytecode, risk, deep_risk, msg, pending, results>>

\* main.py:115  the pipeline returned: on to the next deployment
enrich_and_triage_returns ==
    /\ pc = "pipeline" /\ ppc = "done"
    /\ idx' = idx + 1
    /\ dep' = NoDep
    /\ pc' = "block"
    /\ PipeIdle
    /\ UNCHANGED <<cfg, responses, textVars, tip, last, latest, end, bn, store_last_block,
                   store_deployments, invoked, origin, cycleHigh, failedAt>>

\* main.py:117-118, store.py:45-50  set_last_block(bn); after the last
\* height of the batch, last = end
set_last_block ==
    /\ pc = "checkpoint"
    /\ store_last_block' = bn
    /\ cycleHigh' = bn
    /\ IF bn = end
       THEN /\ last' = end
            /\ pc' = "sleep"
            /\ EndCycle
            /\ UNCHANGED failedAt
       ELSE /\ bn' = bn + 1
            /\ idx' = 1
            /\ pc' = "block"
            /\ Rescan(bn + 1)
            /\ UNCHANGED <<last, latest, end>>
    /\ UNCHANGED <<cfg, responses, textVars, tip, dep, store_deployments, invoked,
                   origin, pipeVars>>

\* LoopError as it would be if the handler moved the cursor onto the height
\* that failed.
LoopErrorSkips(h) ==
    /\ pc' = "sleep"
    /\ dep' = NoDep
    /\ failedAt' = IF h = NoBlock THEN failedAt ELSE h
    /\ last' = IF h = NoBlock THEN last ELSE h
    /\ EndCycle
    /\ PipeIdle
    /\ UNCHANGED <<cfg, responses, textVars, tip, store_last_block,
                   store_deployments, invoked, origin, cycleHigh>>

\* main.py:119-120  except Exception: whatever a call of the cycle raises
\* ends the cycle; nothing it had not yet written is written.
LoopError(h) ==
    /\ pc' = "sleep"
    /\ dep' = NoDep
    /\ failedAt' = IF h = NoBlock THEN failedAt ELSE h
    /\ EndCycle
    /\ PipeIdle
    /\ UNCHANGED <<cfg, responses, textVars, tip, last, store_last_block,
                   store_deployments, invoked, origin, cycleHigh>>

\* the RPC raises: latest_block_number (main.py:96) or the block and receipt
\* reads of the generator (base_rpc.py:26, 32)
rpc_raises ==
    /\ pc \in {"cycle", "block"}
    /\ LoopError(IF pc = "cycle" THEN NoBlock ELSE bn)

\* store_raises as it would be with a per-event handler that swallows a
\* failed has_tx or add_deployment and goes on to the next deployment.
store_raises_swallowed ==
    /\ pc \in {"has_tx", "add", "checkpoint"}
    /\ IF pc = "checkpoint"
       THEN LoopError(bn)
       ELSE /\ idx' = idx + 1
            /\ dep' = NoDep
            /\ pc' = "block"
            /\ UNCHANGED <<cfg, responses, textVars, tip, last, latest, end, bn, store_last_block,
                           store_deployments, invoked, origin, cycleHigh, failedAt, pipeVars>>

\* store_raises as it would be if the cursor were moved onto the height
\* whose checkpoint write failed.
store_raises_advances ==
    /\ pc \in {"has_tx", "add", "checkpoint"}
    /\ IF pc = "checkpoint" THEN LoopErrorSkips(bn) ELSE LoopError(bn)

\* the store raises: has_tx, add_deployment or set_last_block (sqlite3)
store_raises ==
    /\ pc \in {"has_tx", "add", "checkpoint"}
    /\ LoopError(bn)

\* an exception left enrich_and_triage
enrich_and_triage_raises ==
    /\ pc = "pipeline" /\ ppc = "raised"
    /\ LoopError(bn)

\* main.py:122  await asyncio.sleep(cfg.poll_interval_seconds)
sleep ==
    /\ pc = "sleep"
    /\ pc' = "cycle"
    /\ cycleHigh' = NoBlock
    /\ UNCHANGED <<cfg, responses, textVars, tip, last, latest, end, bn, idx, dep, store_last_block,
                   store_deployments, invoked, origin, failedAt, pipeVars>>

\* The process dies at any point; only the store survives.
crash ==
    /\ pc \notin {"dead", "start"}
    /\ pc' = "dead"
    /\ last' = 0 /\ latest' = 0 /\ end' = 0 /\ bn' = 0 /\ idx' = 0
    /\ dep' = NoDep
    /\ cycleHigh' = NoBlock
    /\ failedAt' = NoBlock
    /\ PipeIdle
    /\ UNCHANGED <<cfg, responses, textVars, tip, store_last_block, store_deployments, invoked, origin>>

\* The process is started again with the same configuration and store.
restart ==
    /\ pc = "dead"
    /\ pc' = "start"
    /\ UNCHANGED <<cfg, responses, textVars, tip, last, latest, end, bn, idx, dep, store_last_block,
                   store_deployments, invoked, origin, cycleHigh, failedAt, pipeVars>>

(***************************************************************************)
(* Configurations and evaluator answers.                                   *)
(***************************************************************************)
Config(start, alert, deepThr, key, token, chat, whatsapp) ==
    [start_block |-> start, alert_min_score |-> alert,
     deep_analysis_threshold |-> deepThr, anthropic_api_key |-> key,
     telegram_bot_token |-> token, telegram_chat_id |-> chat,
     whatsapp_target |-> whatsapp]

\* The configurations of the scan loop: both starting modes, the default
\* thresholds, both channels.
LoopConfigs ==
    {Config(s, ALERT_MIN_SCORE, DEEP_ANALYSIS_THRESHOLD, TRUE, TRUE, TRUE, TRUE) :
        s \in {"latest", "0"}}

LoopInit ==
    /\ tip = 0
    /\ pc = "start"
    /\ last = 0 /\ latest = 0 /\ end = 0 /\ bn = 0 /\ idx = 0
    /\ dep = NoDep
    /\ store_last_block = NoBlock
    /\ store_deployments = {}
    /\ invoked = [t \in Txs |-> 0]
    /\ origin = 0
    /\ cycleHigh = NoBlock
    /\ failedAt = NoBlock

PipeRest ==
    /\ ppc = "idle"
    /\ source = "None"
    /\ bytecode = "None"
    /\ risk = NoRisk
    /\ deep_risk = NoRisk
    /\ msg = NoMsg
    /\ pending = {}
    /\ results = {}
    /\ trace = NewTrace

Init ==
    /\ cfg \in LoopConfigs
    /\ responses = "narrow"
    /\ LoopInit
    /\ PipeRest
    /\ TextRest

Next ==
    \/ run_loop_start
    \/ run_loop_start_raises
    \/ latest_block_number
    \/ iter_deployments_in_block
    \/ has_tx_check
    \/ add_deployment
    \/ enrich_and_triage
    \/ enrich_and_triage_returns
    \/ enrich_and_triage_raises
    \/ set_last_block
    \/ rpc_raises
    \/ store_raises
    \/ sleep
    \/ crash
    \/ restart
    \/ PipelineNext

Spec == Init /\ [][Next]_vars

(***************************************************************************)
(* One pipeline run on its own: every configuration of thresholds, API key *)
(* and channels, every answer of BaseScan and of the evaluator.            *)
(***************************************************************************)
PipeConfigs ==
    {Config("latest", t[1], t[2], key, ch[1], ch[2], ch[3]) :
        t \in {<<ALERT_MIN_SCORE, DEEP_ANALYSIS_THRESHOLD>>, <<7, 4>>},
        key \in BOOLEAN,
        ch \in {<<TRUE, TRUE, TRUE>>, <<TRUE, FALSE, TRUE>>,
                <<TRUE, TRUE, FALSE>>, <<FALSE, FALSE, FALSE>>}}

\* The state in which run_loop calls enrich_and_triage for tx1 of block 1.
PipeInit ==
    /\ cfg \in PipeConfigs
    /\ responses \in {"wide", "mute"}
    /\ tip = 1
    /\ pc = "pipeline"
    /\ last = 0 /\ latest = 1 /\ end = 1 /\ bn = 1 /\ idx = 1
    /\ dep = "tx1"
    /\ store_last_block = NoBlock
    /\ store_deployments = {"tx1"}
    /\ invoked = [t \in Txs |-> IF t = "tx1" THEN 1 ELSE 0]
    /\ origin = 0
    /\ cycleHigh = NoBlock
    /\ failedAt = NoBlock
    /\ ppc = "source"
    /\ source = "None"
    /\ bytecode = "None"
    /\ risk = NoRisk
    /\ deep_risk = NoRisk
    /\ msg = NoMsg
    /\ pending = {}
    /\ results = {}
    /\ trace = NewTrace
    /\ TextRest

PipeSpec == PipeInit /\ [][PipelineNext]_vars

(***************************************************************************)
(* Properties of the scan loop (Spec).                                     *)
(***************************************************************************)
\* C1: across cycles, failures in the middle of a block and restarts, the
\* pipeline enrich_and_triage is invoked at most once for any tx_hash.
PipelineAtMostOncePerEvent == \A t \in Txs : invoked[t] <= 1

\* A block is scanned again and a deployment that already went through the
\* pipeline is met by the guard.
RescanMeetsProcessedEvent == pc = "has_tx" /\ has_tx(dep) /\ invoked[dep] = 1

\* C2: no set_last_block ever writes a height lower than the persisted one.
CheckpointNeverDecreases == [][store_last_block' >= store_last_block]_vars

\* The deployments the chain holds at height h.
EventsAt(h) == {Chain(h)[i] : i \in 1..Len(Chain(h))}

\* C3: every deployment at a height above the cursor the scan started from
\* and up to the persisted last_block is recorded in table deployments.
CheckpointCoversEvents ==
    \A h \in (origin + 1)..store_last_block : EventsAt(h) \subseteq store_deployments

\* The checkpoint stands on a block with two deployments, scanned from 0.
CheckpointPastEvents == origin = 0 /\ store_last_block = 2 /\ pc = "block" /\ bn = 3

\* C8: when the scanner, the store or the pipeline raises at height h, the
\* loop goes on (it sleeps, it is not dead), the cycle has checkpointed no
\* height >= h, and the cursor stays below h until h is scanned again.
FailedHeightIsRetried ==
    failedAt # NoBlock =>
        /\ pc # "dead"
        /\ cycleHigh < failedAt
        /\ last < failedAt

\* The cycle checkpointed height 1 and failed at height 2.
FailedAfterCheckpoint == pc = "sleep" /\ failedAt = 2 /\ cycleHigh = 1

\* C9: the pipeline is invoked for a deployment only once its row is in the
\* store and only if it was never invoked before; a failed add_deployment
\* ends the cycle without invoking the pipeline.
MarkBeforeInvoke ==
    /\ [][invoked' # invoked =>
            /\ dep \in store_deployments
            /\ invoked[dep] = 0
            /\ invoked' = [invoked EXCEPT ![dep] = 1]]_vars
    /\ [][(pc = "add" /\ dep \notin store_deployments') =>
            (invoked' = invoked /\ pc' \in {"sleep", "dead"})]_vars
    /\ [](pc \in {"triage", "pipeline"} => dep \in store_deployments)

\* A deployment marked before a crash or a failure, and never run through
\* the pipeline, is skipped by the guard of a later scan.
MarkedEventLostAfterCrash == pc = "has_tx" /\ has_tx(dep) /\ invoked[dep] = 0

\* C10: no failure of enrichment, evaluation or delivery leaves
\* enrich_and_triage.
NoErrorLeavesPipeline == ppc # "raised"

\* The positions of run_loop inside a batch, and those that hold a deployment.
InBatch == {"block", "has_tx", "add", "triage", "pipeline", "checkpoint"}
AtEvent == {"has_tx", "add", "triage", "pipeline"}

\* C13: a cycle with cursor < tip opens the batch cursor+1 .. min(tip,
\* cursor+10); heights are taken in ascending order, each checkpointed before
\* anything of the next one is marked or run, and the deployments of a
\* height one at a time in scanner order; the step that checkpoints the last
\* height of the batch leaves the cursor and the persisted last_block both at
\* min(tip, cursor+10).  A cycle that finds cursor >= tip goes to sleep with
\* the cursor and the store unchanged.
BatchProcessedInOrder ==
    /\ [][(pc = "cycle" /\ pc' = "block") =>
            /\ last < tip'
            /\ bn' = last + 1
            /\ end' = Min(tip', last + BATCH_CAP)
            /\ last' = last]_vars
    /\ [][(pc = "cycle" /\ pc' = "sleep") =>
            /\ last' = last
            /\ store_last_block' = store_last_block
            /\ store_deployments' = store_deployments
            /\ invoked' = invoked]_vars
    /\ [](pc \in InBatch =>
            /\ latest = tip
            /\ end = Min(tip, last + BATCH_CAP)
            /\ bn \in (last + 1)..end
            /\ cycleHigh = IF bn = last + 1 THEN NoBlock ELSE bn - 1)
    /\ [](pc \in AtEvent =>
            /\ idx \in 1..Len(Chain(bn))
            /\ dep = Chain(bn)[idx]
            /\ \A j \in 1..(idx - 1) : Chain(bn)[j] \in store_deployments)
    /\ [][store_deployments' # store_deployments =>
            (pc = "add" /\ store_deployments' = store_deployments \cup {Chain(bn)[idx]})]_vars
    /\ [][(pc = "checkpoint" /\ cycleHigh' = bn) =>
            /\ idx = Len(Chain(bn)) + 1
            /\ EventsAt(bn) \subseteq store_deployments
            /\ store_last_block' = bn
            /\ IF bn = end
               THEN last' = end /\ pc' = "sleep"
               ELSE last' = last /\ bn' = bn + 1 /\ pc' = "block"]_vars
    /\ [][(last' # last /\ pc # "start" /\ pc' # "dead") =>
            /\ pc = "checkpoint" /\ bn = end
            /\ last' = Min(tip, last + BATCH_CAP)
            /\ store_last_block' = last']_vars

\* A cycle that started at cursor 0 with the tip at 12 has ended: the batch
\* was capped, cursor and checkpoint stand at 10.
CappedBatchDone ==
    /\ pc = "sleep" /\ tip = 12 /\ cycleHigh = 10
    /\ last = 10 /\ store_last_block = 10

\* C14: when set_last_block(h) raises, the cycle ends with the cursor
\* unchanged and below h and nothing written; and once a checkpoint is
\* persisted, the cursor of the running loop never exceeds it.
CheckpointFailureKeepsCursor ==
    /\ [][(pc = "checkpoint" /\ pc' = "sleep" /\ cycleHigh' # bn) =>
            /\ last' = last
            /\ last' < bn
            /\ store_last_block' = store_last_block]_vars
    /\ []((store_last_block # NoBlock /\ pc \notin {"start", "dead"}) =>
            last <= store_last_block)

\* The cycle checkpointed height 1, ran both deployments of height 2 and
\* failed before the checkpoint of height 2 was written: the cursor is still
\* 0 and the store holds 1.
FailedBeforeCheckpointWritten ==
    /\ pc = "sleep" /\ failedAt = 2 /\ cycleHigh = 1
    /\ invoked["tx3"] = 1
    /\ last = 0 /\ store_last_block = 1

\* C20: over every sequence of cycles, failures and restarts, a channel is
\* sent at most one fast and one deep alert per tx_hash: the pipeline runs at
\* most once per tx_hash; a run calls _publish at most once per tier; every
\* send that finishes is the first of its tier and channel in the run and
\* leaves its channel done, failed or not; and the sends of a run are
\* forgotten only when the run is over.
AtMostOneAlertPerChannel ==
    /\ [](\A t \in Txs : invoked[t] <= 1)
    /\ [](pc = "pipeline" => invoked[dep] = 1)
    /\ [](trace.fast_publish <= 1 /\ trace.deep_publish <= 1)
    /\ [][\A r \in results' \ results :
            /\ r.ch \in pending
            /\ r.ch \notin pending'
            /\ <<msg.tier, r.ch>> \notin trace.sends]_vars
    /\ [][(pending' # pending /\ pending # {} /\ pc' = "pipeline") =>
            (pending' \subseteq pending /\ \A ch \in pending \ pending' : <<msg.tier, ch>> \in trace'.sends)]_vars
    /\ [][~(trace.sends \subseteq trace'.sends) =>
            (trace' = NewTrace /\ pc' # "pipeline")]_vars

\* In a scan after a crash (tx2 is marked but was never run) the Telegram
\* send of the deep alert for tx3 has failed and its channel is not pending
\* any more.
FailedSendNotRetried ==
    /\ pc = "pipeline" /\ ppc = "publish"
    /\ dep = "tx3" /\ "tx2" \in store_deployments /\ invoked["tx2"] = 0
    /\ msg.tier = "deep"
    /\ [ch |-> "telegram", ok |-> FALSE] \in results
    /\ "telegram" \notin pending

\* C12: at every startup that finds a persisted checkpoint, the cursor is
\* initialised to it (the scan resumes at last_block + 1); START_BLOCK or
\* the tip is used only when no checkpoint exists.
CursorResumesFromCheckpoint ==
    [][(pc = "start" /\ pc' = "cycle" /\ store_last_block # NoBlock) =>
            last' = store_last_block]_vars

\* C15: a failure of the chain scanner never ends the process, startup
\* included: no startup step (main.py:78-85, where only the tip read can
\* raise) leaves the process dead.
ScannerFailureNeverFatal == [][pc = "start" => pc' # "dead"]_vars

(***************************************************************************)
(* Properties of one pipeline run (PipeSpec).                              *)
(***************************************************************************)
PipelineEnded == ppc \in {"done", "raised"}

\* C4: with an API key configured, a run whose fast assessment has score s
\* (and tags that are a list of strings) ends with _publish called once for a
\* fast alert iff s >= alert_min_score, the deep evaluator called once iff
\* s >= deep_analysis_threshold, and one deep alert dispatched for every deep
\* evaluation.
ThresholdCorrectness ==
    (cfg.anthropic_api_key /\ PipelineEnded /\ Joinable(risk.tags)) =>
        /\ trace.fast_publish = IF risk.score >= cfg.alert_min_score THEN 1 ELSE 0
        /\ trace.deep_calls = IF risk.score >= cfg.deep_analysis_threshold THEN 1 ELSE 0
        /\ trace.deep_publish = trace.deep_calls

\* C5: when the fast (deep) evaluator fails or answers with a malformed
\* response, the run goes on with score 5, tags ["evaluation-error"], tier
\* fast (deep), never raises, and ends with the alert dispatched when 5 meets
\* alert_min_score.
FallbackOnEvaluatorFailure ==
    /\ trace.fast_malformed =>
        /\ risk = RiskAssessment(FALLBACK_SCORE, TagList(<<"evaluation-error">>), "fast")
        /\ ppc # "raised"
        /\ (ppc = "done" /\ FALLBACK_SCORE >= cfg.alert_min_score) => trace.fast_publish = 1
    /\ trace.deep_malformed =>
        /\ deep_risk = RiskAssessment(FALLBACK_SCORE, TagList(<<"evaluation-error">>), "deep")
        /\ ppc # "raised"
        /\ ppc = "done" => trace.deep_publish = 1

\* C6: _publish starts a send on every configured channel; the gather
\* returns only when each of them has finished, failed or not, and then
\* returns normally: the run goes on to the deep stage or to Done.
DeliveryIsolation ==
    /\ [](ppc = "publish" =>
            /\ Channels(cfg) # {}
            /\ {<<msg.tier, ch>> : ch \in Channels(cfg)} \subseteq trace.started
            /\ pending \cup {r.ch : r \in results} = Channels(cfg))
    /\ [][(ppc = "publish" /\ ppc' # "publish") =>
            /\ {r.ch : r \in results} = Channels(cfg)
            /\ ppc' = IF msg.tier = "fast" THEN "deep" ELSE "done"]_vars

\* Two channels, the Telegram send failed, the WhatsApp send succeeded, and
\* the gather is about to return.
OneSinkFailedOtherDelivered ==
    /\ ppc = "publish" /\ pending = {}
    /\ results = {[ch |-> "telegram", ok |-> FALSE], [ch |-> "whatsapp", ok |-> TRUE]}

\* C11: every assessment the pipeline compares against alert_min_score or
\* deep_analysis_threshold (main.py:46, 51), whatever the evaluator answered,
\* has a score in 0..10.
ComparedScoreInRange ==
    ppc \in {"fast_alert", "publish", "deep", "deep_alert", "done", "raised"} =>
        risk.score \in 0..10

\* C16: every external call is bounded by a timeout, so a run never waits
\* for ever: as long as enrich_and_triage has neither returned nor raised,
\* one of its steps can be taken, whatever the collaborators do.
PipelineNeverBlocks ==
    (pc = "pipeline" /\ ~PipelineEnded) => ENABLED PipelineNext

\* enrich_and_triage is past step 2 (main.py:33-38).
PastTriage == ppc \in {"fast_alert", "publish", "deep", "deep_alert", "done", "raised"}

\* The enrichment of main.py:25-28 failed: the source lookup raised, or the
\* contract is unverified and the bytecode lookup raised or returned None.
EnrichmentFailed == source = "None" \/ (source = "unverified" /\ bytecode = "None")

\* C17: a failed enrichment lookup never ends the run: it goes on to step 2,
\* which is run exactly once; the fast evaluator, when one is configured, is
\* called exactly once, with the payload Unavailable.
EnrichmentFailureIsNotFatal ==
    /\ [][(ppc \in {"source", "bytecode"}) => (ppc' \in {"source", "bytecode", "fast"})]_vars
    /\ []((PastTriage /\ EnrichmentFailed) =>
            /\ Len(SelectSeq(trace.order, LAMBDA st : st = "FastEvaluated")) = 1
            /\ IF cfg.anthropic_api_key
               THEN trace.fast_calls = 1 /\ trace.fast_ctx = "Unavailable"
               ELSE trace.fast_calls = 0 /\ risk = quick_heuristic_assess)

\* The source lookup raised and the fast evaluator has been called.
TriagedWithoutEnrichment ==
    /\ ppc = "fast_alert" /\ source = "None"
    /\ trace.fast_calls = 1 /\ trace.fast_ctx = "Unavailable"

\* C18: with a deep evaluator configured, whatever the order of the two
\* thresholds, a run whose fast score meets deep_analysis_threshold (its
\* tags being a list of strings) ends with one deep evaluation and one deep alert dispatched, and with a fast alert
\* dispatched exactly when the score also meets alert_min_score.
DeepEscalationIndependent ==
    (cfg.anthropic_api_key /\ PipelineEnded /\ Joinable(risk.tags)
        /\ risk.score >= cfg.deep_analysis_threshold) =>
        /\ trace.deep_calls = 1
        /\ trace.deep_publish = 1
        /\ trace.fast_publish = IF risk.score >= cfg.alert_min_score THEN 1 ELSE 0

\* The place of a stage in Created, Enriched, FastEvaluated, AlertedFast,
\* DeepEvaluated, AlertedDeep, Done.
StageRank(st) ==
    CASE st = "Enriching" -> 1
      [] st = "FastEvaluated" -> 2
      [] st = "AlertedFast" -> 3
      [] st = "DeepEvaluated" -> 4
      [] st = "AlertedDeep" -> 5

\* C19: the stages of a run follow one another only in the order Enriched,
\* FastEvaluated, AlertedFast (optional), DeepEvaluated then AlertedDeep
\* (optional), Done; the deep evaluator is called only when every send of
\* the fast alert has finished, and the run returns only when every send it
\* started has finished.
StagesInOrder ==
    /\ [](\A i \in 1..(Len(trace.order) - 1) :
            StageRank(trace.order[i]) < StageRank(trace.order[i + 1]))
    /\ [](\A i \in 1..Len(trace.order) :
            /\ (i = 1) <=> (trace.order[i] = "Enriching")
            /\ (i = 2) <=> (trace.order[i] = "FastEvaluated")
            /\ (trace.order[i] = "AlertedDeep") => (trace.order[i - 1] = "DeepEvaluated"))
    /\ [](ppc = "done" =>
            /\ Len(trace.order) >= 2
            /\ pending = {}
            /\ trace.started \subseteq trace.sends)
    /\ [][trace'.deep_calls # trace.deep_calls =>
            /\ pending = {}
            /\ trace.started \subseteq trace.sends
            /\ \A st \in trace.started : st[1] = "fast"]_vars

\* A run that went through every stage on two channels has returned.
EveryStagePassed ==
    /\ ppc = "done"
    /\ trace.order = <<"Enriching", "FastEvaluated", "AlertedFast", "DeepEvaluated", "AlertedDeep">>
    /\ Cardinality(trace.sends) = 4

\* C21: once the deep evaluator has been called, the run ends with one deep
\* alert dispatched, whatever the deep assessment holds: its score is
\* compared against no threshold.
DeepAlertUnconditional ==
    (PipelineEnded /\ trace.deep_calls >= 1) =>
        (trace.deep_calls = 1 /\ trace.deep_publish = 1)

\* C22: without ANTHROPIC_API_KEY no evaluator is called; the assessment is
\* the placeholder with score 5; the run never raises and ends with a fast
\* alert dispatched iff alert_min_score <= 5, and with no deep evaluation and
\* no deep alert, also when deep_analysis_threshold <= 5.
PlaceholderWithoutKey ==
    ~cfg.anthropic_api_key =>
        /\ trace.fast_calls = 0
        /\ trace.deep_calls = 0
        /\ trace.deep_publish = 0
        /\ ppc \notin {"deep_alert", "raised"}
        /\ PastTriage => (risk.score = 5 /\ risk.tier = "placeholder")
        /\ ppc \in {"deep", "done"} =>
            trace.fast_publish = IF cfg.alert_min_score <= 5 THEN 1 ELSE 0

\* Without a key and with the thresholds 7 and 4, a run has returned: no
\* alert, although the placeholder score 5 meets the deep threshold.
PlaceholderPastDeepThreshold ==
    /\ ~cfg.anthropic_api_key
    /\ cfg.alert_min_score = 7 /\ cfg.deep_analysis_threshold = 4
    /\ ppc = "done"
    /\ risk.score = 5
    /\ trace.fast_publish = 0

(***************************************************************************)
(* One deep alert on its way to both sinks: every length of headline, tag  *)
(* list and report around the two cut points.                              *)
(***************************************************************************)
Reports ==
    [score : {5, 10},
     headline_len : {0, 40, 1700, 1800, 3900, 5000},
     tags_len : {0, 20},
     details_len : {0, 18, 1999, 2000, 2001, 4001, 5000}]

TextInit ==
    /\ cfg = Config("latest", ALERT_MIN_SCORE, DEEP_ANALYSIS_THRESHOLD, TRUE, TRUE, TRUE, TRUE)
    /\ responses = "narrow"
    /\ LoopInit
    /\ PipeRest
    /\ tpc = "assessed"
    /\ report \in Reports
    /\ text = NoText
    /\ wire = [telegram |-> NoText, whatsapp |-> NoText]

TextNext ==
    \/ format_deep_alert_call
    \/ send_telegram_text
    \/ send_whatsapp_text

TextSpec == TextInit /\ [][TextNext]_vars

(***************************************************************************)
(* Properties of the alert text (TextSpec).                                *)
(***************************************************************************)
\* C7 as stated: a deep alert whose report is longer than the 4000
\* characters of the sink's limit reaches the Telegram transport with at
\* most 4000 characters, the truncation marker included.
TruncatedWithinLimit ==
    (tpc = "sent" /\ report.details_len > TELEGRAM_CUT) => wire.telegram.len <= TELEGRAM_CUT

\* C7: whatever the lengths, format_deep_alert keeps at most the first 2000
\* characters of the report; send_telegram hands over the text unchanged up
\* to 4000 characters and otherwise its first 4000 characters plus the
\* 13-character marker (4013 in all); send_whatsapp hands it over uncut.
TruncationBound ==
    tpc = "sent" =>
        /\ ReportKept(report) <= DETAILS_CUT
        /\ text.len <= HEADER_FIXED + 3 + report.headline_len + report.tags_len
                        + 3 * ADDRESS_LEN + REPORT_FRAME + DETAILS_CUT
        /\ wire.telegram.len <= TELEGRAM_CUT + MARKER_LEN
        /\ wire.telegram.marker <=> text.len > TELEGRAM_CUT
        /\ ~wire.telegram.marker => wire.telegram = text
        /\ wire.whatsapp = text

\* A 5000-character report behind a long headline: the text is cut by
\* send_telegram and leaves with 4013 characters.
LongReportCutWithMarker ==
    /\ tpc = "sent"
    /\ report.details_len = 5000
    /\ text.len > TELEGRAM_CUT
    /\ wire.telegram = Text(TELEGRAM_CUT + MARKER_LEN, TRUE)

====
